---- MODULE Spec2Model ----
(***************************************************************************)
(* NFT activity tracker (server.js): the event detection engine            *)
(* (detectEvents), the daily handler that feeds it, and the generic rollup *)
(* (aggregatePeriod) with the weekly / monthly / yearly handlers.          *)
(*                                                                         *)
(* Strings that the code formats, splits or prefix-tests (period ids and   *)
(* file names) are sequences of one-character strings.  A JS object keyed  *)
(* by NFT id is a function whose domain is the set of its keys.            *)
(***************************************************************************)
EXTENDS Integers, Sequences, FiniteSets, TLC

(***************************************************************************)
(* Bounds of the model.                                                    *)
(***************************************************************************)
\* the collection scan `nftId = 1 .. 10000` (server.js:246) runs to MaxNftId
MaxNftId == 2
\* the daily hour scan `hour = 0 .. 23` (server.js:176) runs to HoursPerDay - 1
HoursPerDay == 3
\* number of single-field changes the upstream collection makes in a run
MaxChanges == 2

NftIds == 1..MaxNftId
Owners == {"x", "y"}
Flags == {"bbl", "boost", "daodao", "enterprise", "broken"}

(***************************************************************************)
(* Strings                                                                 *)
(***************************************************************************)
DigitChars == <<"0", "1", "2", "3", "4", "5", "6", "7", "8", "9">>

\* UTF-16 code unit of the characters that occur in file names
CharCode(c) ==
    CASE c = "-" -> 45
      [] c = "." -> 46
      [] c = "W" -> 87
      [] c = "j" -> 106
      [] c = "n" -> 110
      [] c = "o" -> 111
      [] c = "s" -> 115
      [] OTHER -> 48 + (CHOOSE d \in 0..9 : DigitChars[d + 1] = c)

\* String(n) for n >= 0
RECURSIVE NumberToString(_)
NumberToString(n) ==
    IF n < 10 THEN <<DigitChars[n + 1]>>
    ELSE NumberToString(n \div 10) \o <<DigitChars[(n % 10) + 1]>>

\* s.padStart(2, '0')
padStart2(s) == IF Len(s) < 2 THEN <<"0">> \o s ELSE s

\* s.startsWith(p)
startsWith(s, p) == Len(p) <= Len(s) /\ SubSeq(s, 1, Len(p)) = p

\* s.split('-')[0]: the part before the first '-'
RECURSIVE splitDashFirst(_)
splitDashFirst(s) ==
    IF s = <<>> \/ Head(s) = "-" THEN <<>>
    ELSE <<Head(s)>> \o splitDashFirst(Tail(s))

\* a < b in JS string order (code units, a proper prefix first)
RECURSIVE StringLess(_, _)
StringLess(a, b) ==
    IF b = <<>> THEN FALSE
    ELSE IF a = <<>> THEN TRUE
    ELSE IF Head(a) # Head(b) THEN CharCode(Head(a)) < CharCode(Head(b))
    ELSE StringLess(Tail(a), Tail(b))

DotJson == <<".", "j", "s", "o", "n">>

(***************************************************************************)
(* Dates: a Date is the number of days since 2023-01-01 (a Sunday), UTC,   *)
(* together with an hour where the code reads one.                         *)
(***************************************************************************)
IsLeap(y) == (y % 4 = 0 /\ y % 100 # 0) \/ y % 400 = 0

\* number of leap years before year y
LeapsBefore(y) == ((y - 1) \div 4) - ((y - 1) \div 100) + ((y - 1) \div 400)

\* Date.UTC(y, 0, 1) in days
YearStart(y) == 365 * (y - 2023) + LeapsBefore(y) - LeapsBefore(2023)

\* days of a common year before month m
DaysBeforeMonth == <<0, 31, 59, 90, 120, 151, 181, 212, 243, 273, 304, 334, 365>>

\* Date.UTC(y, m - 1, 1) in days, m in 1..13
MonthStart(y, m) ==
    YearStart(y) + DaysBeforeMonth[m] + (IF m > 2 /\ IsLeap(y) THEN 1 ELSE 0)

\* Date.UTC(y, m - 1, d) in days; m may be 0 (December of y - 1) and d may run
\* past the end of the month, as the Date setters allow
DateUTC(y, m, d) ==
    IF m < 1 THEN MonthStart(y - 1, m + 12) + d - 1 ELSE MonthStart(y, m) + d - 1

getUTCFullYear(t) ==
    LET y == 2023 + (t \div 366)
    IN  IF t >= YearStart(y + 1) THEN y + 1 ELSE y

\* getUTCMonth() + 1
getUTCMonth1(t) ==
    LET y == getUTCFullYear(t)
    IN  CHOOSE m \in 1..12 : MonthStart(y, m) <= t /\ t < MonthStart(y, m + 1)

getUTCDate(t) == t - MonthStart(getUTCFullYear(t), getUTCMonth1(t)) + 1
\* 0 = Sunday
getUTCDay(t) == t % 7

\* ISO week number, as getWeekNumber computes it
getWeekNumber(t) ==
    LET dayNum == IF getUTCDay(t) = 0 THEN 7 ELSE getUTCDay(t)
        d == t + 4 - dayNum
        yearStart == YearStart(getUTCFullYear(d))
        \* Math.ceil(((d - yearStart) + 1) / 7)
        weekNo == (d - yearStart + 1 + 6) \div 7
    IN  padStart2(NumberToString(weekNo))

formatDate(t, hour, format) ==
    LET year == NumberToString(getUTCFullYear(t))
        month == padStart2(NumberToString(getUTCMonth1(t)))
        day == padStart2(NumberToString(getUTCDate(t)))
        hh == padStart2(NumberToString(hour))
    IN  CASE format = "full" -> year \o <<"-">> \o month \o <<"-">> \o day \o <<"-">> \o hh \o <<"0", "0">>
          [] format = "date" -> year \o <<"-">> \o month \o <<"-">> \o day
          [] format = "week" -> year \o <<"-", "W">> \o getWeekNumber(t)
          [] format = "month" -> year \o <<"-">> \o month
          [] format = "year" -> year
          [] OTHER -> year \o <<"-">> \o month \o <<"-">> \o day

(***************************************************************************)
(* Snapshots and event logs                                                *)
(***************************************************************************)
\* one element of a snapshot's nfts array
Records ==
    [id : NftIds, owner : Owners, bbl : BOOLEAN, boost : BOOLEAN,
     daodao : BOOLEAN, enterprise : BOOLEAN, broken : BOOLEAN]

CounterNames ==
    {"bbl_sales", "boost_sales", "transfers", "bbl_listings", "bbl_delistings",
     "boost_listings", "boost_delistings", "daodao_stakes", "daodao_unstakes",
     "enterprise_stakes", "enterprise_unstakes", "breaks", "total_events"}

\* the summary object literal of detectEvents and of aggregatePeriod
ZeroSummary == [k \in CounterNames |-> 0]

\* the empty object {}
EmptyObject == [k \in {} |-> <<>>]

\* obj[key] = value on an object keyed by NFT id
SetKey(obj, key, value) ==
    [k \in DOMAIN obj \cup {key} |-> IF k = key THEN value ELSE obj[k]]

\* snapshots.map(s => s.nfts ...): the array of a {collection_stats, nfts} capture
normalize(s) == s.nfts

\* arr.find(n => n.id === nftId) finds an element
Has(arr, nftId) == \E k \in 1..Len(arr) : arr[k].id = nftId
\* the element it finds: the first one with that id
find(arr, nftId) ==
    arr[CHOOSE k \in 1..Len(arr) :
            /\ arr[k].id = nftId
            /\ \A j \in 1..(k - 1) : arr[j].id # nftId]

(***************************************************************************)
(* detectEvents.  st is the pair of the function's two accumulators while  *)
(* one NFT is scanned: events (the NFT's array) and summary.               *)
(***************************************************************************)
\* Emit without `summary.total_events++`
EmitNoTotal(st, ev, counter) ==
    [events |-> Append(st.events, ev),
     summary |-> [st.summary EXCEPT ![counter] = @ + 1]]

\* events.push(ev); summary[counter]++; summary.total_events++
Emit(st, ev, counter) ==
    [events |-> Append(st.events, ev),
     summary |-> [st.summary EXCEPT ![counter] = @ + 1, !["total_events"] = @ + 1]]

\* OwnerChange asking for the boost listing before the bbl listing
OwnerChangeBoostFirst(st, prev, curr, i) ==
    IF prev.owner # curr.owner
    THEN IF prev.boost = TRUE
         THEN Emit(st, [type |-> "sale", marketplace |-> "boost",
                        from |-> prev.owner, to |-> curr.owner, hour |-> i], "boost_sales")
         ELSE IF prev.bbl = TRUE
         THEN Emit(st, [type |-> "sale", marketplace |-> "bbl",
                        from |-> prev.owner, to |-> curr.owner, hour |-> i], "bbl_sales")
         ELSE Emit(st, [type |-> "transfer",
                        from |-> prev.owner, to |-> curr.owner, hour |-> i], "transfers")
    ELSE st

OwnerChange(st, prev, curr, i) ==
    IF prev.owner # curr.owner
    THEN LET wasListedBbl == prev.bbl = TRUE
             wasListedBoost == prev.boost = TRUE
         IN  IF wasListedBbl
             THEN Emit(st, [type |-> "sale", marketplace |-> "bbl",
                            from |-> prev.owner, to |-> curr.owner, hour |-> i], "bbl_sales")
             ELSE IF wasListedBoost
             THEN Emit(st, [type |-> "sale", marketplace |-> "boost",
                            from |-> prev.owner, to |-> curr.owner, hour |-> i], "boost_sales")
             ELSE Emit(st, [type |-> "transfer",
                            from |-> prev.owner, to |-> curr.owner, hour |-> i], "transfers")
    ELSE st

\* BblChange looking at the bbl flag only when the owner stayed
BblChangeUnlessSold(st, prev, curr, i) ==
    IF prev.owner = curr.owner /\ prev.bbl # curr.bbl
    THEN IF curr.bbl = TRUE
         THEN Emit(st, [type |-> "listing", marketplace |-> "bbl", hour |-> i], "bbl_listings")
         ELSE Emit(st, [type |-> "delisting", marketplace |-> "bbl", hour |-> i], "bbl_delistings")
    ELSE st

BblChange(st, prev, curr, i) ==
    IF prev.bbl # curr.bbl
    THEN IF curr.bbl = TRUE
         THEN Emit(st, [type |-> "listing", marketplace |-> "bbl", hour |-> i], "bbl_listings")
         ELSE Emit(st, [type |-> "delisting", marketplace |-> "bbl", hour |-> i], "bbl_delistings")
    ELSE st

BoostChange(st, prev, curr, i) ==
    IF prev.boost # curr.boost
    THEN IF curr.boost = TRUE
         THEN Emit(st, [type |-> "listing", marketplace |-> "boost", hour |-> i], "boost_listings")
         ELSE Emit(st, [type |-> "delisting", marketplace |-> "boost", hour |-> i], "boost_delistings")
    ELSE st

DaodaoChange(st, prev, curr, i) ==
    IF prev.daodao # curr.daodao
    THEN IF curr.daodao = TRUE
         THEN Emit(st, [type |-> "stake", protocol |-> "daodao", hour |-> i], "daodao_stakes")
         ELSE Emit(st, [type |-> "unstake", protocol |-> "daodao", hour |-> i], "daodao_unstakes")
    ELSE st

EnterpriseChange(st, prev, curr, i) ==
    IF prev.enterprise # curr.enterprise
    THEN IF curr.enterprise = TRUE
         THEN Emit(st, [type |-> "stake", protocol |-> "enterprise", hour |-> i], "enterprise_stakes")
         ELSE Emit(st, [type |-> "unstake", protocol |-> "enterprise", hour |-> i], "enterprise_unstakes")
    ELSE st

BreakChange(st, prev, curr, i) ==
    IF prev.broken # curr.broken
    THEN Emit(st, [type |-> "break_change", from |-> prev.broken, to |-> curr.broken,
                   hour |-> i], "breaks")
    ELSE st

\* the body of the inner loop for one adjacent pair, after the `continue` test
ComparePair(st, prev, curr, i) ==
    BreakChange(
      EnterpriseChange(
        DaodaoChange(
          BoostChange(
            BblChange(
              OwnerChange(st, prev, curr, i),
              prev, curr, i),
            prev, curr, i),
          prev, curr, i),
        prev, curr, i),
      prev, curr, i)

\* PairStep comparing with the last earlier snapshot that holds the NFT
PairStepAcrossGap(st, snaps, nftId, i) ==
    LET earlier == {j \in 1..i : Has(snaps[j], nftId)}
    IN  IF earlier = {} \/ ~Has(snaps[i + 1], nftId)
        THEN st
        ELSE LET j == CHOOSE k \in earlier : \A l \in earlier : l <= k
             IN  ComparePair(st, find(snaps[j], nftId), find(snaps[i + 1], nftId), i)

\* one iteration of `for (let i = 1; i < normalizedSnapshots.length; i++)`;
\* the model's sequences are 1-based, so JS index i - 1 is snaps[i]
PairStep(st, snaps, nftId, i) ==
    IF ~Has(snaps[i], nftId) \/ ~Has(snaps[i + 1], nftId)
    THEN st
    ELSE ComparePair(st, find(snaps[i], nftId), find(snaps[i + 1], nftId), i)

RECURSIVE ScanPairs(_, _, _, _)
ScanPairs(st, snaps, nftId, i) ==
    IF i < Len(snaps)
    THEN ScanPairs(PairStep(st, snaps, nftId, i), snaps, nftId, i + 1)
    ELSE st

\* NftStep without `if (events.length > 0)`
NftStepAlways(log, snaps, nftId) ==
    LET st == ScanPairs([events |-> <<>>, summary |-> log.summary], snaps, nftId, 1)
    IN  [summary |-> st.summary,
         activity_log |-> SetKey(log.activity_log, nftId, st.events)]

\* one iteration of `for (let nftId = 1; ...)`: log is [summary, activity_log]
NftStep(log, snaps, nftId) ==
    LET st == ScanPairs([events |-> <<>>, summary |-> log.summary], snaps, nftId, 1)
    IN  [summary |-> st.summary,
         activity_log |-> IF Len(st.events) > 0
                          THEN SetKey(log.activity_log, nftId, st.events)
                          ELSE log.activity_log]

RECURSIVE ScanNfts(_, _, _)
ScanNfts(log, snaps, nftId) ==
    IF nftId <= MaxNftId
    THEN ScanNfts(NftStep(log, snaps, nftId), snaps, nftId + 1)
    ELSE log

detectEvents(snapshots) ==
    LET normalizedSnapshots == [k \in 1..Len(snapshots) |-> normalize(snapshots[k])]
    IN  ScanNfts([summary |-> ZeroSummary, activity_log |-> EmptyObject],
                 normalizedSnapshots, 1)

(***************************************************************************)
(* Directories.  A directory is the sequence of its entries [name, data]   *)
(* in the order fs.readdir returns them, which the file system decides.    *)
(* data is what the file holds: an event log, or text that is not JSON.    *)
(***************************************************************************)
\* what a file holds after a write that was cut short
Truncated == [text |-> "{"]

\* JSON.parse(content) returns rather than throws
parses(content) == content # Truncated

\* fs.readdir(dir)
readdir(dir) == [k \in 1..Len(dir) |-> dir[k].name]

Exists(dir, name) == \E k \in 1..Len(dir) : dir[k].name = name

\* JSON.parse(fs.readFile(path.join(dir, name)))
readFile(dir, name) == dir[CHOOSE k \in 1..Len(dir) : dir[k].name = name].data

\* the directories fs.writeFile(path.join(dir, name), data) can leave: an
\* existing file is rewritten in place, a new one takes a place of the file
\* system's choosing
writeFile(dir, name, data) ==
    IF Exists(dir, name)
    THEN {[k \in 1..Len(dir) |->
            IF dir[k].name = name THEN [name |-> name, data |-> data] ELSE dir[k]]}
    ELSE {SubSeq(dir, 1, p) \o <<[name |-> name, data |-> data]>> \o SubSeq(dir, p + 1, Len(dir)) :
            p \in 0..Len(dir)}

(***************************************************************************)
(* aggregatePeriod                                                         *)
(***************************************************************************)
\* files.filter(f => f.startsWith(periodId.split('-')[0]))
relevantFiles(files, periodId) ==
    SelectSeq(files, LAMBDA f : startsWith(f, splitDashFirst(periodId)))

\* arr.slice(0, maxFiles)
slice0(arr, maxFiles) == SubSeq(arr, 1, IF Len(arr) < maxFiles THEN Len(arr) ELSE maxFiles)

\* for (const key in data.summary) combined.summary[key] += data.summary[key]
MergeSummary(summary, data) ==
    [k \in DOMAIN summary |->
        IF k \in DOMAIN data.summary THEN summary[k] + data.summary[k] ELSE summary[k]]

\* MergeNft putting the later file's events first
MergeNftPrepend(activity_log, data, nftId) ==
    LET started == IF nftId \in DOMAIN activity_log
                   THEN activity_log
                   ELSE SetKey(activity_log, nftId, <<>>)
    IN  SetKey(started, nftId, data.activity_log[nftId] \o started[nftId])

\* the body of `for (const nftId in data.activity_log)`
MergeNft(activity_log, data, nftId) ==
    LET started == IF nftId \in DOMAIN activity_log
                   THEN activity_log
                   ELSE SetKey(activity_log, nftId, <<>>)
    IN  SetKey(started, nftId, started[nftId] \o data.activity_log[nftId])

\* for-in visits integer-like keys in ascending order
RECURSIVE MergeActivity(_, _, _)
MergeActivity(activity_log, data, keys) ==
    IF keys = {} THEN activity_log
    ELSE LET nftId == CHOOSE k \in keys : \A j \in keys : k <= j
         IN  MergeActivity(MergeNft(activity_log, data, nftId), data, keys \ {nftId})

\* one iteration of `for (const file of relevantFiles.slice(0, maxFiles))`
MergeFile(combined, data) ==
    [summary |-> MergeSummary(combined.summary, data),
     activity_log |-> MergeActivity(combined.activity_log, data, DOMAIN data.activity_log)]

RECURSIVE MergeFiles(_, _, _)
MergeFiles(combined, dir, files) ==
    IF files = <<>> THEN combined
    ELSE MergeFiles(MergeFile(combined, readFile(dir, Head(files))), dir, Tail(files))

\* combinedOf starting from the log the target directory already holds
combinedOnto(sourceDir, target, periodId, maxFiles) ==
    MergeFiles(IF Exists(target, periodId \o DotJson)
               THEN readFile(target, periodId \o DotJson)
               ELSE [summary |-> ZeroSummary, activity_log |-> EmptyObject],
               sourceDir,
               slice0(relevantFiles(readdir(sourceDir), periodId), maxFiles))

\* the object aggregatePeriod builds, before it is written; target is the
\* directory the result goes to
combinedOf(sourceDir, target, periodId, maxFiles) ==
    MergeFiles([summary |-> ZeroSummary, activity_log |-> EmptyObject],
               sourceDir,
               slice0(relevantFiles(readdir(sourceDir), periodId), maxFiles))

\* maxFiles of the three callers
WeeklyMaxFiles == 7
MonthlyMaxFiles == 31
YearlyMaxFiles == 12

(***************************************************************************)
(* State                                                                   *)
(***************************************************************************)
VARIABLES
    now,        \* the clock: [day, hour], what `new Date()` returns
    feed,       \* the collection SOURCE_URL serves: NFT id -> [listed, rec]
    changes,    \* number of changes the collection has made
    snapshots,  \* DATA_DIR/snapshots: file name -> captured snapshot
    daily,      \* DATA_DIR/daily
    weekly,     \* DATA_DIR/weekly
    monthly,    \* DATA_DIR/monthly
    yearly,     \* DATA_DIR/yearly
    call        \* the requests served at the current time and the last response

vars == <<now, feed, changes, snapshots, daily, weekly, monthly, yearly, call>>
dirs == <<snapshots, daily, weekly, monthly, yearly>>

(***************************************************************************)
(* The cron tables that drive the endpoints: the times at which requests   *)
(* arrive and the endpoints requested then.  Cron requests every endpoint  *)
(* of a time at least once before the next time comes.  2024-01-31,        *)
(* 2024-02-01 and 2024-02-02 lie in ISO week 5 of 2024.                    *)
(***************************************************************************)
FirstDay == DateUTC(2024, 1, 31)

\* one day of hourly captures, processed the day after
Cron ==
    [k \in 1..(HoursPerDay + 1) |->
        IF k <= HoursPerDay
        THEN [day |-> FirstDay, hour |-> k - 1, requests |-> {"capture-snapshot"}]
        ELSE [day |-> FirstDay + 1, hour |-> 0,
              requests |-> {"capture-snapshot", "process-daily-events"}]]

\* the rollups of two processed days
RollupCron ==
    <<[day |-> FirstDay + 1, hour |-> 0, requests |-> {"process-daily-events"}],
      [day |-> FirstDay + 2, hour |-> 0, requests |-> {"process-daily-events"}],
      [day |-> FirstDay + 2, hour |-> 1, requests |-> {"aggregate-weekly", "aggregate-monthly"}],
      [day |-> DateUTC(2025, 1, 10), hour |-> 0, requests |-> {"aggregate-monthly"}],
      [day |-> DateUTC(2025, 1, 10), hour |-> 1, requests |-> {"aggregate-yearly"}]>>

\* two processed days and the rollups that follow them
MalformedCron == SubSeq(RollupCron, 1, 3)

\* the processing of one captured day
PairCron ==
    <<[day |-> FirstDay + 1, hour |-> 0, requests |-> {"process-daily-events"}]>>

Requested(cron, endpoint) ==
    \E k \in 1..Len(cron) :
        cron[k].day = now.day /\ cron[k].hour = now.hour /\ endpoint \in cron[k].requests

BaseRecord ==
    [owner |-> "x", bbl |-> FALSE, boost |-> FALSE, daodao |-> FALSE,
     enterprise |-> FALSE, broken |-> FALSE]

BaseFeed == [id \in NftIds |-> [listed |-> TRUE, rec |-> BaseRecord]]

\* response.data: the listed NFTs, in id order
RECURSIVE nftsFrom(_, _)
nftsFrom(f, id) ==
    IF id > MaxNftId THEN <<>>
    ELSE (IF f[id].listed
          THEN <<[id |-> id, owner |-> f[id].rec.owner, bbl |-> f[id].rec.bbl,
                  boost |-> f[id].rec.boost, daodao |-> f[id].rec.daodao,
                  enterprise |-> f[id].rec.enterprise, broken |-> f[id].rec.broken]>>
          ELSE <<>>) \o nftsFrom(f, id + 1)

\* the file /capture-snapshot writes at time [day, hour] and its content
snapshotName(day, hour) == formatDate(day, hour, "full") \o DotJson
snapshotOf(f) == [nfts |-> nftsFrom(f, 1)]

\* call: the endpoint served last at the current time, its response (success,
\* the period key it names), the files a rollup selected to merge, the endpoints served
\* so far at the current time, and whether this endpoint was among them
NoCall ==
    [endpoint |-> "none", success |-> TRUE, key |-> <<>>, merged |-> <<>>,
     served |-> {}, again |-> FALSE]

Response(endpoint, success, key, merged) ==
    [endpoint |-> endpoint, success |-> success, key |-> key, merged |-> merged,
     served |-> call.served \cup {endpoint}, again |-> endpoint \in call.served]

\* the server right after start(): empty data directories
Init ==
    /\ now = [day |-> Cron[1].day, hour |-> Cron[1].hour]
    /\ feed = BaseFeed
    /\ changes = 0
    /\ snapshots = [n \in {} |-> <<>>]
    /\ daily = <<>>
    /\ weekly = <<>>
    /\ monthly = <<>>
    /\ yearly = <<>>
    /\ call = NoCall

(***************************************************************************)
(* The environment: the clock and the upstream collection.  The collection *)
(* changes between the times requests arrive: a change made while requests *)
(* are served shows in the next capture all the same.                      *)
(***************************************************************************)
Tick(cron) ==
    /\ \E k \in 1..(Len(cron) - 1) :
          /\ cron[k].day = now.day /\ cron[k].hour = now.hour
          /\ cron[k].requests \subseteq call.served
          /\ now' = [day |-> cron[k + 1].day, hour |-> cron[k + 1].hour]
    /\ call' = NoCall
    /\ UNCHANGED <<feed, changes, dirs>>

\* an NFT changes hands
ownerChanges(f) ==
    {[f EXCEPT ![id].rec.owner = o] : id \in NftIds, o \in Owners} \ {f}
\* one of an NFT's flags flips
flagChanges(f) ==
    {[f EXCEPT ![id].rec[fl] = ~@] : id \in NftIds, fl \in Flags}
\* an NFT drops out of the served collection, or comes back into it in the
\* hands of any owner
listedChanges(f) ==
    {[f EXCEPT ![id].listed = FALSE] : id \in {i \in NftIds : f[i].listed}}
    \cup {[f EXCEPT ![id].listed = TRUE, ![id].rec.owner = o] :
            id \in {i \in NftIds : ~f[i].listed}, o \in Owners}
\* the collection an hour later, when at most one thing changed
oneChange(f) == {f} \cup ownerChanges(f) \cup flagChanges(f) \cup listedChanges(f)
\* the collection an hour later, when at most two things changed
twoChanges(f) == UNION {oneChange(g) : g \in oneChange(f)}

FeedOwner(maxChanges) ==
    /\ changes < maxChanges
    /\ call = NoCall
    /\ feed' \in ownerChanges(feed)
    /\ changes' = changes + 1
    /\ UNCHANGED <<now, dirs, call>>

FeedFlag(maxChanges) ==
    /\ changes < maxChanges
    /\ call = NoCall
    /\ feed' \in flagChanges(feed)
    /\ changes' = changes + 1
    /\ UNCHANGED <<now, dirs, call>>

FeedListed(maxChanges) ==
    /\ changes < maxChanges
    /\ call = NoCall
    /\ feed' \in listedChanges(feed)
    /\ changes' = changes + 1
    /\ UNCHANGED <<now, dirs, call>>

\* the daily directories in which one more event log has been left cut short
truncations(dir) ==
    {[dir EXCEPT ![k].data = Truncated] : k \in {j \in 1..Len(dir) : parses(dir[j].data)}}

\* between the times requests arrive a daily event log is left cut short,
\* as by a write of the file that did not complete
TruncateDaily ==
    /\ call = NoCall
    /\ daily' \in truncations(daily)
    /\ UNCHANGED <<now, feed, changes, snapshots, weekly, monthly, yearly, call>>

(***************************************************************************)
(* POST /capture-snapshot                                                  *)
(***************************************************************************)
CaptureSnapshot(cron) ==
    LET timestamp == formatDate(now.day, now.hour, "full")
        filename == snapshotName(now.day, now.hour)
    IN  /\ Requested(cron, "capture-snapshot")
        /\ \/ \* axios.get succeeds
              /\ snapshots' = [n \in DOMAIN snapshots \cup {filename} |->
                                IF n = filename THEN snapshotOf(feed) ELSE snapshots[n]]
              /\ call' = Response("capture-snapshot", TRUE, timestamp, <<>>)
           \/ \* axios.get throws
              /\ call' = Response("capture-snapshot", FALSE, <<>>, <<>>)
              /\ UNCHANGED snapshots
        /\ UNCHANGED <<now, feed, changes, daily, weekly, monthly, yearly>>

(***************************************************************************)
(* POST /process-daily-events                                              *)
(***************************************************************************)
hourFile(targetDate, hour) ==
    targetDate \o <<"-">> \o padStart2(NumberToString(hour)) \o <<"0", "0">> \o DotJson

\* the loop over the hours: the snapshots that could be read, in hour order
RECURSIVE loadSnapshots(_, _, _)
loadSnapshots(store, targetDate, hour) ==
    IF hour >= HoursPerDay THEN <<>>
    ELSE (IF hourFile(targetDate, hour) \in DOMAIN store
          THEN <<store[hourFile(targetDate, hour)]>>
          ELSE <<>>) \o loadSnapshots(store, targetDate, hour + 1)

\* the handler's test for throwing `No snapshots found`
TooFewSnapshots(loaded) == Len(loaded) = 0

\* the date the handler processes: the day before `new Date()`
targetDateAt(t) == formatDate(t - 1, 0, "date")

ProcessDailyEvents(cron) ==
    LET targetDate == targetDateAt(now.day)
        loaded == loadSnapshots(snapshots, targetDate, 0)
    IN  /\ Requested(cron, "process-daily-events")
        /\ IF TooFewSnapshots(loaded)
           THEN /\ call' = Response("process-daily-events", FALSE, targetDate, <<>>)
                /\ UNCHANGED daily
           ELSE /\ daily' \in writeFile(daily, targetDate \o DotJson, detectEvents(loaded))
                /\ call' = Response("process-daily-events", TRUE, targetDate, <<>>)
        /\ UNCHANGED <<now, feed, changes, snapshots, weekly, monthly, yearly>>

(***************************************************************************)
(* POST /aggregate-weekly, /aggregate-monthly, /aggregate-yearly           *)
(***************************************************************************)
\* the files the loop of aggregatePeriod reads, in the order it reads them
mergedFiles(sourceDir, periodId, maxFiles) ==
    slice0(relevantFiles(readdir(sourceDir), periodId), maxFiles)

\* formatDate(lastWeek, 'week') with lastWeek seven days before `new Date()`
weekIdAt(t) == formatDate(t - 7, 0, "week")

\* formatDate(lastMonth, 'month') with lastMonth = setUTCMonth(getUTCMonth() - 1)
monthIdAt(t) ==
    formatDate(DateUTC(getUTCFullYear(t), getUTCMonth1(t) - 1, getUTCDate(t)), 0, "month")

\* formatDate(lastYear, 'year') with lastYear = setUTCFullYear(getUTCFullYear() - 1)
yearIdAt(t) ==
    formatDate(DateUTC(getUTCFullYear(t) - 1, getUTCMonth1(t), getUTCDate(t)), 0, "year")

\* JSON.parse throws inside the loop of aggregatePeriod: the call rejects
\* before it writes and the handler's catch answers 500
aggregateThrows(sourceDir, periodId, maxFiles) ==
    \E f \in {mergedFiles(sourceDir, periodId, maxFiles)[k] :
                k \in 1..Len(mergedFiles(sourceDir, periodId, maxFiles))} :
        ~parses(readFile(sourceDir, f))

AggregateWeekly(cron) ==
    LET weekId == weekIdAt(now.day)
    IN  /\ Requested(cron, "aggregate-weekly")
        /\ IF aggregateThrows(daily, weekId, WeeklyMaxFiles)
           THEN /\ call' = Response("aggregate-weekly", FALSE, weekId,
                                    mergedFiles(daily, weekId, WeeklyMaxFiles))
                /\ UNCHANGED weekly
           ELSE /\ weekly' \in writeFile(weekly, weekId \o DotJson,
                                         combinedOf(daily, weekly, weekId, WeeklyMaxFiles))
                /\ call' = Response("aggregate-weekly", TRUE, weekId,
                                    mergedFiles(daily, weekId, WeeklyMaxFiles))
        /\ UNCHANGED <<now, feed, changes, snapshots, daily, monthly, yearly>>

AggregateMonthly(cron) ==
    LET monthId == monthIdAt(now.day)
    IN  /\ Requested(cron, "aggregate-monthly")
        /\ IF aggregateThrows(daily, monthId, MonthlyMaxFiles)
           THEN /\ call' = Response("aggregate-monthly", FALSE, monthId,
                                    mergedFiles(daily, monthId, MonthlyMaxFiles))
                /\ UNCHANGED monthly
           ELSE /\ monthly' \in writeFile(monthly, monthId \o DotJson,
                                          combinedOf(daily, monthly, monthId, MonthlyMaxFiles))
                /\ call' = Response("aggregate-monthly", TRUE, monthId,
                                    mergedFiles(daily, monthId, MonthlyMaxFiles))
        /\ UNCHANGED <<now, feed, changes, snapshots, daily, weekly, yearly>>

AggregateYearly(cron) ==
    LET yearId == yearIdAt(now.day)
    IN  /\ Requested(cron, "aggregate-yearly")
        /\ IF aggregateThrows(monthly, yearId, YearlyMaxFiles)
           THEN /\ call' = Response("aggregate-yearly", FALSE, yearId,
                                    mergedFiles(monthly, yearId, YearlyMaxFiles))
                /\ UNCHANGED yearly
           ELSE /\ yearly' \in writeFile(yearly, yearId \o DotJson,
                                         combinedOf(monthly, yearly, yearId, YearlyMaxFiles))
                /\ call' = Response("aggregate-yearly", TRUE, yearId,
                                    mergedFiles(monthly, yearId, YearlyMaxFiles))
        /\ UNCHANGED <<now, feed, changes, snapshots, daily, weekly, monthly>>

(***************************************************************************)
(* Specifications                                                          *)
(***************************************************************************)
\* a day of captures and its processing, from the start of the server
Next ==
    \/ Tick(Cron)
    \/ FeedOwner(MaxChanges)
    \/ FeedFlag(MaxChanges)
    \/ FeedListed(MaxChanges)
    \/ CaptureSnapshot(Cron)
    \/ ProcessDailyEvents(Cron)

Spec == Init /\ [][Next]_vars

\* two captured days (two captures each, the collection changing at most twice
\* between the captures of the first day and at most once between those of the
\* second), then their processing and the rollups
InitRollup ==
    /\ now = [day |-> RollupCron[1].day, hour |-> RollupCron[1].hour]
    /\ \E f1 \in twoChanges(BaseFeed) : \E f2 \in oneChange(f1) :
          /\ feed = f2
          /\ snapshots =
                (snapshotName(FirstDay, 0) :> snapshotOf(BaseFeed))
                @@ (snapshotName(FirstDay, 1) :> snapshotOf(f1))
                @@ (snapshotName(FirstDay + 1, 0) :> snapshotOf(f1))
                @@ (snapshotName(FirstDay + 1, 2) :> snapshotOf(f2))
    /\ changes = 0
    /\ daily = <<>>
    /\ weekly = <<>>
    /\ monthly = <<>>
    /\ yearly = <<>>
    /\ call = NoCall

NextRollup ==
    \/ Tick(RollupCron)
    \/ ProcessDailyEvents(RollupCron)
    \/ AggregateWeekly(RollupCron)
    \/ AggregateMonthly(RollupCron)
    \/ AggregateYearly(RollupCron)

SpecRollup == InitRollup /\ [][NextRollup]_vars

\* the two captured days again, with daily event logs that may be left cut
\* short before the weekly and the monthly rollup read them
NextMalformed ==
    \/ Tick(MalformedCron)
    \/ TruncateDaily
    \/ ProcessDailyEvents(MalformedCron)
    \/ AggregateWeekly(MalformedCron)
    \/ AggregateMonthly(MalformedCron)

SpecMalformed == InitRollup /\ [][NextMalformed]_vars

\* one captured day holding any two consecutive captures of NFT 1, then its
\* processing
InitPair ==
    /\ now = [day |-> PairCron[1].day, hour |-> PairCron[1].hour]
    /\ feed = BaseFeed
    /\ \E prev, curr \in {r \in Records : r.id = 1} :
          snapshots =
                (snapshotName(FirstDay, 0) :> [nfts |-> <<prev>>])
                @@ (snapshotName(FirstDay, 1) :> [nfts |-> <<curr>>])
    /\ changes = 0
    /\ daily = <<>>
    /\ weekly = <<>>
    /\ monthly = <<>>
    /\ yearly = <<>>
    /\ call = NoCall

NextPair == ProcessDailyEvents(PairCron)

SpecPair == InitPair /\ [][NextPair]_vars

(***************************************************************************)
(* Properties.  What follows states the claims; none of it models code.    *)
(***************************************************************************)
Aggregates == {"aggregate-weekly", "aggregate-monthly", "aggregate-yearly"}

\* every event log on disk
LogsOf(dir) == {dir[k].data : k \in 1..Len(dir)}
AllLogs == LogsOf(daily) \cup LogsOf(weekly) \cup LogsOf(monthly) \cup LogsOf(yearly)

\* the elements of a sequence
Range(seq) == {seq[k] : k \in 1..Len(seq)}

RECURSIVE SumOver(_, _)
SumOver(f, keys) ==
    IF keys = {} THEN 0
    ELSE LET k == CHOOSE x \in keys : TRUE IN f[k] + SumOver(f, keys \ {k})

\* number of events in an activity log
EventCount(activity_log) ==
    SumOver([x \in DOMAIN activity_log |-> Len(activity_log[x])], DOMAIN activity_log)

\* what the last /process-daily-events call read and wrote
Processed == call.endpoint = "process-daily-events" /\ call.success
Loaded == loadSnapshots(snapshots, call.key, 0)
DailyLog == readFile(daily, call.key \o DotJson)

\* the record of NFT id in a snapshot that holds it
Holds(snap, id) == \E r \in Range(snap.nfts) : r.id = id
RecordOf(snap, id) == CHOOSE r \in Range(snap.nfts) : r.id = id

\* the events a log holds for NFT id with hour offset i
EventsAt(log, id, i) ==
    IF id \in DOMAIN log.activity_log
    THEN SelectSeq(log.activity_log[id], LAMBDA e : e.hour = i)
    ELSE <<>>

IsOwnership(e) == e.type \in {"sale", "transfer"}

\* e is an event of flag fl's kind
OfFlag(e, fl) ==
    CASE fl \in {"bbl", "boost"} -> e.type \in {"listing", "delisting"} /\ e.marketplace = fl
      [] fl \in {"daodao", "enterprise"} -> e.type \in {"stake", "unstake"} /\ e.protocol = fl
      [] OTHER -> e.type = "break_change"

\* the event type a change of flag fl to value v calls for
TypeFor(fl, v) ==
    CASE fl \in {"bbl", "boost"} -> IF v THEN "listing" ELSE "delisting"
      [] fl \in {"daodao", "enterprise"} -> IF v THEN "stake" ELSE "unstake"
      [] OTHER -> "break_change"

\* the fields in which two records of an NFT differ
DiffFields(prev, curr) == {fl \in Flags \cup {"owner"} : prev[fl] # curr[fl]}

\* the source and target directory and the cap of a rollup endpoint
SourceDir(endpoint) == IF endpoint = "aggregate-yearly" THEN monthly ELSE daily
TargetDir(endpoint) ==
    CASE endpoint = "aggregate-weekly" -> weekly
      [] endpoint = "aggregate-monthly" -> monthly
      [] OTHER -> yearly
MaxFilesOf(endpoint) ==
    CASE endpoint = "aggregate-weekly" -> WeeklyMaxFiles
      [] endpoint = "aggregate-monthly" -> MonthlyMaxFiles
      [] OTHER -> YearlyMaxFiles

\* what the last rollup call read and wrote
RolledUp == call.endpoint \in Aggregates
Merged == [k \in 1..Len(call.merged) |-> readFile(SourceDir(call.endpoint), call.merged[k])]
RollupLog == readFile(TargetDir(call.endpoint), call.key \o DotJson)

\* the date a daily file name YYYY-MM-DD.json stands for
NumberOf(chars) ==
    LET digit(c) == CHOOSE d \in 0..9 : DigitChars[d + 1] = c
    IN  IF Len(chars) = 4
        THEN 1000 * digit(chars[1]) + 100 * digit(chars[2]) + 10 * digit(chars[3]) + digit(chars[4])
        ELSE 10 * digit(chars[1]) + digit(chars[2])
DateOfFile(f) ==
    DateUTC(NumberOf(SubSeq(f, 1, 4)), NumberOf(SubSeq(f, 6, 7)), NumberOf(SubSeq(f, 9, 10)))
InWeek(f, weekId) == formatDate(DateOfFile(f), 0, "week") = weekId
InMonth(f, monthId) == formatDate(DateOfFile(f), 0, "month") = monthId

\* C1: in every event log written by detectEvents (daily) or by
\* aggregatePeriod (weekly, monthly, yearly), summary.total_events equals the
\* sum of the other eleven counters and equals the number of events held in
\* activity_log.
C1_CounterConsistency ==
    \A log \in AllLogs :
        /\ log.summary["total_events"] = SumOver(log.summary, CounterNames \ {"total_events"})
        /\ log.summary["total_events"] = EventCount(log.activity_log)

\* a weekly log merged from two daily logs, holding three events or more of
\* two kinds or more
C1_Witness ==
    /\ call.endpoint = "aggregate-weekly"
    /\ Len(call.merged) = 2
    /\ \A k \in 1..2 : Merged[k].summary["total_events"] > 0
    /\ RollupLog.summary["total_events"] >= 3
    /\ Cardinality({c \in CounterNames \ {"total_events"} : RollupLog.summary[c] > 0}) >= 2

\* C2: every artifact a weekly or monthly rollup merges belongs to the
\* target week or month, and when the period has at most maxFiles stored
\* artifacts all of them are merged.
C2_ExactPeriodMembership ==
    /\ call.endpoint = "aggregate-weekly" =>
          /\ \A f \in Range(call.merged) : InWeek(f, call.key)
          /\ LET stored == {f \in Range(readdir(daily)) : InWeek(f, call.key)}
             IN  Cardinality(stored) <= WeeklyMaxFiles => stored \subseteq Range(call.merged)
    /\ call.endpoint = "aggregate-monthly" =>
          /\ \A f \in Range(call.merged) : InMonth(f, call.key)
          /\ LET stored == {f \in Range(readdir(daily)) : InMonth(f, call.key)}
             IN  Cardinality(stored) <= MonthlyMaxFiles => stored \subseteq Range(call.merged)

\* C3: for every adjacent pair of loaded snapshots and every NFT held by
\* both, the daily log holds for that pair exactly one ownership event when
\* the owner differs (a bbl sale if the previous record was listed on bbl,
\* else a boost sale if it was listed on boost, else a transfer) and none
\* when the owner is the same.
C3_OwnershipPrecedence ==
    Processed =>
        \A i \in 1..(Len(Loaded) - 1), id \in NftIds :
            Holds(Loaded[i], id) /\ Holds(Loaded[i + 1], id) =>
                LET prev == RecordOf(Loaded[i], id)
                    curr == RecordOf(Loaded[i + 1], id)
                    own == SelectSeq(EventsAt(DailyLog, id, i), IsOwnership)
                IN  IF prev.owner = curr.owner
                    THEN own = <<>>
                    ELSE /\ Len(own) = 1
                         /\ own[1].from = prev.owner /\ own[1].to = curr.owner
                         /\ IF prev.bbl
                            THEN own[1].type = "sale" /\ own[1].marketplace = "bbl"
                            ELSE IF prev.boost
                            THEN own[1].type = "sale" /\ own[1].marketplace = "boost"
                            ELSE own[1].type = "transfer"

\* an owner change of an NFT listed on bbl and on boost, logged as a bbl sale
C3_Witness ==
    /\ Processed
    /\ Len(Loaded) = 2
    /\ LET prev == RecordOf(Loaded[1], 1)
           curr == RecordOf(Loaded[2], 1)
       IN  /\ prev.bbl /\ prev.boost /\ prev.owner # curr.owner
           /\ \E e \in Range(EventsAt(DailyLog, 1, 1)) :
                  e.type = "sale" /\ e.marketplace = "bbl"

\* C8: when fewer than two snapshots are available for the target day,
\* /process-daily-events fails and no daily log of that day is on disk.
C8_InsufficientData ==
    call.endpoint = "process-daily-events" /\ Len(Loaded) < 2 =>
        ~call.success /\ ~Exists(daily, call.key \o DotJson)

\* C9: for every adjacent pair of loaded snapshots and every NFT held by
\* both, each of the five flags that differs has exactly one event of its
\* kind in the daily log for that pair (listing / stake / break_change towards
\* the new value, delisting / unstake otherwise) and each flag that is the
\* same has none, whatever the owner and the other flags do; the pair has as
\* many events as fields that differ.
C9_IndependentFlags ==
    Processed =>
        \A i \in 1..(Len(Loaded) - 1), id \in NftIds :
            Holds(Loaded[i], id) /\ Holds(Loaded[i + 1], id) =>
                LET prev == RecordOf(Loaded[i], id)
                    curr == RecordOf(Loaded[i + 1], id)
                    all == EventsAt(DailyLog, id, i)
                IN  /\ \A fl \in Flags :
                          LET evs == SelectSeq(all, LAMBDA e : OfFlag(e, fl))
                          IN  IF prev[fl] = curr[fl]
                              THEN evs = <<>>
                              ELSE Len(evs) = 1 /\ evs[1].type = TypeFor(fl, curr[fl])
                    /\ Len(all) = Cardinality(DiffFields(prev, curr))

\* an owner change together with a bbl listing on the same pair, both logged
C9_Witness ==
    /\ Processed
    /\ Len(Loaded) = 2
    /\ LET prev == RecordOf(Loaded[1], 1)
           curr == RecordOf(Loaded[2], 1)
           all == EventsAt(DailyLog, 1, 1)
       IN  /\ prev.owner # curr.owner /\ ~prev.bbl /\ curr.bbl
           /\ \E e \in Range(all) : IsOwnership(e)
           /\ \E e \in Range(all) : e.type = "listing" /\ e.marketplace = "bbl"

\* C10: a pair of adjacent loaded snapshots one of which lacks an NFT gives
\* that NFT no event and no count and the call still succeeds; the pairs that
\* hold the NFT on both sides give one event per differing field, all events
\* of the log belong to such a pair, and total_events counts exactly those.
C10_AbsentIdentifiers ==
    call.endpoint = "process-daily-events" /\ Len(Loaded) >= 1 =>
        /\ call.success
        /\ \A id \in NftIds :
              /\ \A i \in 1..(Len(Loaded) - 1) :
                    IF Holds(Loaded[i], id) /\ Holds(Loaded[i + 1], id)
                    THEN Len(EventsAt(DailyLog, id, i)) =
                            Cardinality(DiffFields(RecordOf(Loaded[i], id),
                                                   RecordOf(Loaded[i + 1], id)))
                    ELSE EventsAt(DailyLog, id, i) = <<>>
              /\ id \in DOMAIN DailyLog.activity_log =>
                    \A e \in Range(DailyLog.activity_log[id]) : e.hour \in 1..(Len(Loaded) - 1)
        /\ DailyLog.summary["total_events"] =
              Cardinality({t \in (1..(Len(Loaded) - 1)) \X NftIds \X (Flags \cup {"owner"}) :
                  /\ Holds(Loaded[t[1]], t[2]) /\ Holds(Loaded[t[1] + 1], t[2])
                  /\ t[3] \in DiffFields(RecordOf(Loaded[t[1]], t[2]),
                                         RecordOf(Loaded[t[1] + 1], t[2]))})

\* three loaded snapshots, NFT 1 in the first and the third in different
\* hands but not in the second: the log holds nothing for it
C10_Witness ==
    /\ Processed
    /\ Len(Loaded) = 3
    /\ Holds(Loaded[1], 1) /\ ~Holds(Loaded[2], 1) /\ Holds(Loaded[3], 1)
    /\ RecordOf(Loaded[1], 1).owner # RecordOf(Loaded[3], 1).owner
    /\ 1 \notin DOMAIN DailyLog.activity_log

\* the events of NFT x in the logs, one log after the other
RECURSIVE ConcatFor(_, _)
ConcatFor(logs, x) ==
    IF logs = <<>> THEN <<>>
    ELSE (IF x \in DOMAIN Head(logs).activity_log THEN Head(logs).activity_log[x] ELSE <<>>)
         \o ConcatFor(Tail(logs), x)

\* C4: the activity log a rollup writes has an entry for exactly the NFTs
\* that have one in some merged log, and that entry is the concatenation of
\* the merged logs' event sequences in the order the logs were merged.
C4_MergeConcatenation ==
    RolledUp =>
        /\ DOMAIN RollupLog.activity_log =
              UNION {DOMAIN Merged[k].activity_log : k \in 1..Len(Merged)}
        /\ \A x \in DOMAIN RollupLog.activity_log :
              RollupLog.activity_log[x] = ConcatFor(Merged, x)

\* a rollup of two logs that hold different events for the same NFT
C4_Witness ==
    /\ RolledUp
    /\ Len(Merged) = 2
    /\ \E x \in DOMAIN Merged[1].activity_log \cap DOMAIN Merged[2].activity_log :
          /\ Merged[1].activity_log[x] # Merged[2].activity_log[x]
          /\ RollupLog.activity_log[x] = Merged[1].activity_log[x] \o Merged[2].activity_log[x]

\* C5: every key of the sparse map of every log on disk maps to a non-empty
\* event sequence, and an NFT without a key in any merged log has no key in
\* the rollup.
C5_SparseMap ==
    /\ \A log \in AllLogs : \A x \in DOMAIN log.activity_log : log.activity_log[x] # <<>>
    /\ RolledUp =>
          \A x \in NftIds :
              (\A k \in 1..Len(Merged) : x \notin DOMAIN Merged[k].activity_log)
                 => x \notin DOMAIN RollupLog.activity_log

\* a rollup of two logs that holds events for one NFT and no key for another
\* one that both days' snapshots list
C5_Witness ==
    /\ RolledUp
    /\ Len(Merged) = 2
    /\ \E x, z \in NftIds :
          /\ x \in DOMAIN RollupLog.activity_log
          /\ z \notin DOMAIN RollupLog.activity_log
          /\ \A f \in DOMAIN snapshots : Holds(snapshots[f], z)

\* C6: a rollup endpoint called again for the same period over unchanged
\* source logs leaves the rollup directories as the first call left them:
\* the log is computed afresh and written over the stored one.
C6_FreshRecompute ==
    [][(call'.endpoint \in Aggregates /\ call'.again)
          => <<weekly, monthly, yearly>>' = <<weekly, monthly, yearly>>]_vars

\* a rollup that holds events, just written for the second time
C6_Witness ==
    /\ RolledUp
    /\ call.again
    /\ RollupLog.summary["total_events"] > 0

\* C7: a rollup merges its source logs in ascending order of their names,
\* and never more than maxFiles of them.
C7_MergeInputOrderAndCap ==
    RolledUp =>
        /\ \A k \in 1..(Len(call.merged) - 1) : StringLess(call.merged[k], call.merged[k + 1])
        /\ Len(call.merged) <= MaxFilesOf(call.endpoint)

\* the files the last rollup call selected whose content parses
Parsable == SelectSeq(call.merged, LAMBDA f : parses(readFile(SourceDir(call.endpoint), f)))

\* C11: a rollup that selects a source log which does not parse skips that
\* log alone: the call succeeds and the target holds the merge of the
\* selected logs that do parse.
C11_MalformedArtifactIsolation ==
    RolledUp /\ Parsable # call.merged =>
        /\ call.success
        /\ Exists(TargetDir(call.endpoint), call.key \o DotJson)
        /\ RollupLog = MergeFiles([summary |-> ZeroSummary, activity_log |-> EmptyObject],
                                  SourceDir(call.endpoint), Parsable)

====
